---------------------------- MODULE Spec2Model ----------------------------
(***************************************************************************)
(* Model of the agent executor service: orchestrator.py (one request's     *)
(* walk through the chat-turn store, the agent build and the runtime),     *)
(* data_service.py (the store adapter) and agent_builder.py (template      *)
(* resolver, tool invocation, variable classification).                    *)
(*                                                                         *)
(* Text values are sequences of one-character or one-token strings, so     *)
(* that Python's truthiness tests and str concatenation can be computed.   *)
(* A store call that fails has no effect on the store.                     *)
(***************************************************************************)
EXTENDS Integers, Sequences, FiniteSets, TLC

VARIABLES
    rows,       \* s_agentchats: rows in created_at order, id = position
    pc,         \* per request: position inside execute_agent_task
    req,        \* per request: the {task_id, agent_id, agent_prompt} received
    chat_id,    \* per request: local chat_id (0 is Python's None)
    messages,   \* per request: the input handed to agent.kickoff
    response,   \* per request: local response (result.raw)
    cause,      \* per request: the exception caught at orchestrator.py:47
    outcome,    \* per request: what the endpoint sends to the caller
    attempts,   \* per request: update_agent_response calls made, in order
    faults,     \* per request: the collaborator failures it has met
    template,   \* resolver: the data passed to _resolve_placeholders
    variable_mappings,  \* resolver: the call-time mappings
    user_variables,     \* resolver: self.user_variables
    resolved,   \* resolver: the returned tree, once the call has returned
    tools,      \* tool handles: the fields of each DynamicAPICallTool
    asBuilt,      \* tool handles: the fields as the constructor left them
    log,        \* tool handles: the invocations made, in order
    other_variables,    \* classifier: the list given to build_variable_context
    buckets,    \* classifier: the three lists, once the loop has ended
    supabase,   \* build: what the store holds and which of its fetches fail
    agent,      \* build: what build_agent_from_metadata returned or raised
    description \* tool description: self.description of one DynamicAPICallTool

orchVars == <<rows, pc, req, chat_id, messages, response, cause, outcome,
              attempts, faults>>

resolverVars == <<template, variable_mappings, user_variables, resolved>>

toolVars == <<tools, asBuilt, log>>

classVars == <<other_variables, buckets>>

buildVars == <<supabase, agent>>

descVars == <<description>>

\* what the orchestration leaves alone
nonOrchVars == <<resolverVars, toolVars, classVars, buildVars, descVars>>

\* what the resolver leaves alone
nonResolverVars == <<orchVars, toolVars, classVars, buildVars, descVars>>

\* what a tool invocation leaves alone
nonToolVars == <<orchVars, resolverVars, classVars, buildVars, descVars>>

\* what the classifier leaves alone
nonClassVars == <<orchVars, resolverVars, toolVars, buildVars, descVars>>

\* what a build leaves alone
nonBuildVars == <<orchVars, resolverVars, toolVars, classVars, descVars>>

\* what the construction of a tool leaves alone
nonDescVars == <<orchVars, resolverVars, toolVars, buildVars>>

vars == <<orchVars, resolverVars, toolVars, classVars, buildVars, descVars>>

---------------------------------------------------------------------------
(* Bounds *)

MaxReq == 2

Req == 1 .. MaxReq

MaxTask == 2

\* task ids; a request names a task already in the store or the next new one
Tasks == 1 .. MaxTask

UsedTasks(store) == {store[i].task_id : i \in DOMAIN store}

NameableTasks(store) == {t \in Tasks : \A u \in 1 .. (t - 1) : u \in UsedTasks(store)}

Agents == {"a1", "a2"}

\* a1 has a row in s_agent_basic_metadata, a2 has none
KnownAgents == {"a1"}

\* request prompts; the second is the empty string
Prompts == {<<"p">>, <<>>}

---------------------------------------------------------------------------
(* Values *)

\* SQL NULL / Python None in a text column
Null == <<"<null>">>

\* Python truthiness of an Optional[str]
Truthy(v) == v # Null /\ v # <<>>

NoReq == [task_id |-> 0, agent_id |-> "", agent_prompt |-> <<>>]

NoMessages == [kind |-> "none", text |-> <<>>, list |-> <<>>]

NoOutcome == [status |-> 0, success |-> FALSE, response |-> <<>>, chat_id |-> 0,
              detail |-> <<>>]

\* result.raw of the runtime for request r
Answer(r) == <<"answer", ToString(r)>>

Msg(role, content) == [role |-> role, content |-> content]

---------------------------------------------------------------------------
(* data_service.py *)

\* insert_agent_prompt: the row appended to s_agentchats; response is NULL
NewRow(task_id, agent_id, agent_prompt) ==
    [task_id |-> task_id, agent_id |-> agent_id, agent_prompt |-> agent_prompt,
     response |-> Null]

InsertAgentPrompt(store, task_id, agent_id, agent_prompt) ==
    Append(store, NewRow(task_id, agent_id, agent_prompt))

\* an update that selects by the task of the turn instead of its id
UpdateAgentResponseByTask(store, id, text) ==
    [i \in DOMAIN store |->
        IF store[i].task_id = store[id].task_id
        THEN [store[i] EXCEPT !.response = text] ELSE store[i]]

\* update_agent_response: .update({"response": response}).eq("id", chat_id)
UpdateAgentResponse(store, id, text) ==
    [i \in DOMAIN store |->
        IF i = id THEN [store[i] EXCEPT !.response = text] ELSE store[i]]

RECURSIVE HistoryMessages(_, _, _)
\* the loop of fetch_agent_chat_history over the rows i..Len(store) selected
\* by .eq("task_id", task_id), in the order of .order("created_at")
HistoryMessages(store, task_id, i) ==
    IF i > Len(store) THEN <<>>
    ELSE LET chat == store[i]
             own == IF chat.task_id = task_id
                    THEN (IF Truthy(chat.agent_prompt)
                          THEN <<Msg("user", chat.agent_prompt)>> ELSE <<>>)
                         \o
                         (IF Truthy(chat.response)
                          THEN <<Msg("assistant", chat.response)>> ELSE <<>>)
                    ELSE <<>>
         IN own \o HistoryMessages(store, task_id, i + 1)

\* fetch_agent_chat_history: a store failure is caught and yields []
FetchAgentChatHistory(store, task_id, ok) ==
    IF ok THEN HistoryMessages(store, task_id, 1) ELSE <<>>

\* fetch_agent_metadata: the 404 raised inside the try block is caught by the
\* function's own `except Exception` and re-raised as a 500
FetchAgentMetadata(agent_id, ok) ==
    IF ~ok THEN [raised |-> TRUE, status |-> 500, fault |-> "metadata",
                 detail |-> <<"500: Error fetching agent metadata: ", "store failure">>]
    ELSE IF agent_id \notin KnownAgents
         THEN [raised |-> TRUE, status |-> 500, fault |-> "no_agent",
               detail |-> <<"500: Error fetching agent metadata: ", "404: Agent not found">>]
         ELSE [raised |-> FALSE, status |-> 200, fault |-> "none", detail |-> <<>>]

---------------------------------------------------------------------------
(* agent_builder.py: the template resolver of DynamicAPICallTool *)

MaxLen == 5

\* characters of template strings: the braces, a word character (\w) and a
\* character that is neither
Alphabet == {"{", "}", "a", "/"}

\* characters matched by \w, among those of templates and of bound values
WordChars == {"a", "U", "V"}

Strings == UNION {[1 .. k -> Alphabet] : k \in 0 .. MaxLen}

\* variable names
Names == {<<"a">>, <<"a", "a">>}

\* values of call-time mappings (the second is itself a placeholder) and of
\* user variables
MappingValues == {<<"V">>, <<"{", "a", "}">>}

UserValues == {<<"U">>}

Bindings(values) == UNION {[D -> values] : D \in SUBSET Names}

\* JSON-like nodes
Str(s) == [kind |-> "str", val |-> s]

Dict(items) == [kind |-> "dict", val |-> items]

Other(v) == [kind |-> "other", val |-> v]

RECURSIVE WordRun(_, _)
\* \w+ at position i: the number of word characters it consumes
WordRun(text, i) ==
    IF i <= Len(text) /\ text[i] \in WordChars THEN 1 + WordRun(text, i + 1) ELSE 0

\* r'\{(\w+)\}' tried at position i: the length of the match, 0 for none
MatchAt(text, i) ==
    IF text[i] # "{" THEN 0
    ELSE LET n == WordRun(text, i + 1)
         IN IF n >= 1 /\ i + 1 + n <= Len(text) /\ text[i + 1 + n] = "}"
            THEN n + 2 ELSE 0

\* the user variables consulted before the call-time mappings
ReplacerUserFirst(var_name, whole, mappings, uservars) ==
    IF DOMAIN uservars # {} /\ var_name \in DOMAIN uservars THEN uservars[var_name]
    ELSE IF DOMAIN mappings # {} /\ var_name \in DOMAIN mappings THEN mappings[var_name]
    ELSE whole

\* replacer(match), lines 105-117: call-time mappings first, then user
\* variables, else the matched text itself
Replacer(var_name, whole, mappings, uservars) ==
    IF DOMAIN mappings # {} /\ var_name \in DOMAIN mappings THEN mappings[var_name]
    ELSE IF DOMAIN uservars # {} /\ var_name \in DOMAIN uservars THEN uservars[var_name]
    ELSE whole

RECURSIVE ReSub(_, _, _, _)
\* re.sub: leftmost non-overlapping matches from position i on, each replaced
\* by replacer(match); the replacement is not scanned again
ReSub(text, i, mappings, uservars) ==
    IF i > Len(text) THEN <<>>
    ELSE LET m == MatchAt(text, i)
         IN IF m = 0
            THEN <<text[i]>> \o ReSub(text, i + 1, mappings, uservars)
            ELSE Replacer(SubSeq(text, i + 1, i + m - 2), SubSeq(text, i, i + m - 1),
                          mappings, uservars)
                 \o ReSub(text, i + m, mappings, uservars)

\* _replace_variables, lines 101-119
ReplaceVariables(text, mappings, uservars) == ReSub(text, 1, mappings, uservars)

\* '{' in value and '}' in value, line 92
HasBraces(text) ==
    /\ \E i \in DOMAIN text : text[i] = "{"
    /\ \E i \in DOMAIN text : text[i] = "}"

RECURSIVE ResolvePlaceholders(_, _, _)
\* _resolve_placeholders, lines 83-99: a new dict with the keys of `data`
ResolvePlaceholders(data, mappings, uservars) ==
    IF data.kind # "dict" THEN data
    ELSE Dict([key \in DOMAIN data.val |->
                LET value == data.val[key]
                IN IF value.kind = "str" /\ HasBraces(value.val)
                   THEN Str(ReplaceVariables(value.val, mappings, uservars))
                   ELSE IF value.kind = "dict"
                        THEN ResolvePlaceholders(value, mappings, uservars)
                        ELSE value])

\* the shapes of template trees: a string leaf at the top of the mapping, one
\* inside a nested mapping, beside an integer and a list
Trees ==
    {Dict([k |-> Str(s)]) : s \in Strings}
    \cup {Dict([k |-> Dict([n |-> Str(s), i |-> Other(5)]),
                l |-> Other(<<Str(s)>>)]) : s \in Strings}

NotResolved == Other("not resolved")

InitResolver ==
    /\ template \in Trees
    /\ variable_mappings \in Bindings(MappingValues)
    /\ user_variables \in Bindings(UserValues)
    /\ resolved = NotResolved

\* one call self._resolve_placeholders(template, variable_mappings)
Resolve ==
    /\ resolved = NotResolved
    /\ resolved' = ResolvePlaceholders(template, variable_mappings, user_variables)
    /\ UNCHANGED <<template, variable_mappings, user_variables, nonResolverVars>>

---------------------------------------------------------------------------
(* data_service.py: safe_json_load *)

\* a column value as the store returns it: None, a dict (a json column), or
\* text that is empty, spells none/null, is a JSON document, or is not JSON
RawNone == [kind |-> "none", val |-> Dict(<<>>)]

RawDict(node) == [kind |-> "dict", val |-> node]

RawText(kind, node) == [kind |-> kind, val |-> node]

\* safe_json_load, lines 8-17.  `not value` covers None, "" and {}; for a
\* non-empty dict `value.lower()` raises AttributeError inside the try block,
\* so the isinstance(value, dict) test of line 13 is never reached and the
\* handler returns {}.
SafeJsonLoad(value) ==
    IF value.kind = "none" THEN Dict(<<>>)
    ELSE IF value.kind = "dict" THEN Dict(<<>>)
    ELSE IF value.kind \in {"text_empty", "text_null"} THEN Dict(<<>>)
    ELSE IF value.kind = "text_json" THEN value.val
    ELSE Dict(<<>>)

---------------------------------------------------------------------------
(* agent_builder.py: DynamicAPICallTool and build_tools_from_metadata *)

MaxCalls == 2

Handles == {"h1", "h2"}

\* header and body templates
PathTemplate == Dict([k |-> Str(<<"/", "{", "a", "}">>), i |-> Other(5)])

NestedTemplate == Dict([k |-> Dict([n |-> Str(<<"{", "a", "a", "}">>)])])

\* rows of api_metadata: templates stored as JSON text, and a row whose
\* headers column comes back as a dict
ToolRows ==
    {[endpoint_url |-> "https://api", http_method |-> "get",
      headers |-> RawText("text_json", PathTemplate), query_params |-> RawNone,
      body |-> RawText("text_json", NestedTemplate)],
     [endpoint_url |-> "https://api", http_method |-> "POST",
      headers |-> RawText("text_json", NestedTemplate),
      query_params |-> RawText("text_json", PathTemplate),
      body |-> RawText("text_json", PathTemplate)],
     [endpoint_url |-> "https://api", http_method |-> "post",
      headers |-> RawDict(PathTemplate), query_params |-> RawText("text_null", Dict(<<>>)),
      body |-> RawText("text_json", PathTemplate)]}

\* the variable_mappings argument of an invocation
CallMappings ==
    {<<>>, [x \in {<<"a">>} |-> <<"V">>],
     [x \in {<<"a">>, <<"a", "a">>} |-> <<"{", "a", "}">>]}

\* what requests.request meets: an exception, or a response status
TransportErrors == {"ConnectionError", "Timeout"}

Statuses == {200, 204, 304, 404, 500}

Nets ==
    {[error |-> e, status |-> 0] : e \in TransportErrors}
    \cup {[error |-> "", status |-> st] : st \in Statuses}

\* str.upper() on the stored methods
Upper(method) ==
    IF method \in {"get", "GET"} THEN "GET"
    ELSE IF method \in {"post", "POST"} THEN "POST"
    ELSE method

\* one tool of build_tools_from_metadata, lines 216-233
BuildTool(tool_data, uservars) ==
    [endpoint_url |-> tool_data.endpoint_url,
     http_method |-> tool_data.http_method,
     headers |-> SafeJsonLoad(tool_data.headers),
     query_params |-> SafeJsonLoad(tool_data.query_params),
     body |-> SafeJsonLoad(tool_data.body),
     user_variables |-> uservars]

\* the request _run hands to requests.request, lines 60-76
Request(tool, mappings) ==
    LET method == Upper(tool.http_method)
        data == ResolvePlaceholders(tool.body, mappings, tool.user_variables)
        sendsJson == method \in {"POST", "PUT", "PATCH"}
    IN [method |-> method,
        url |-> tool.endpoint_url,
        headers |-> ResolvePlaceholders(tool.headers, mappings, tool.user_variables),
        params |-> ResolvePlaceholders(tool.query_params, mappings, tool.user_variables),
        json |-> IF sendsJson THEN data ELSE Other("None"),
        data |-> IF sendsJson THEN Other("None") ELSE data]

\* an error status taken to be a server error only
RaiseForStatusServerOnly(status) == status >= 500

\* response.raise_for_status() of the requests library: HTTPError for a
\* client error (400-499) or a server error (500-599) status
RaiseForStatus(status) == 400 <= status /\ status < 600

\* response.text
ResponseText(status) == IF status \in {204, 304} THEN <<>> ELSE <<"body">>

\* the string _run returns, lines 78-81
RunResult(net) ==
    IF net.error # "" THEN <<"API call failed: ", net.error>>
    ELSE IF RaiseForStatus(net.status) THEN <<"API call failed: ", "HTTPError">>
    ELSE ResponseText(net.status)

\* the resolved headers kept on the handle
ToolAfterRunStoring(tool, sent) == [tool EXCEPT !.headers = sent.headers]

\* the handle after _run, lines 57-81: no attribute of self is assigned
ToolAfterRun(tool, sent) == tool

\* the tool_data rows of one build and the user variables of the agent
InitTools ==
    \E uservars \in {<<>>, [x \in {<<"a">>} |-> <<"U">>]}, rowOf \in [Handles -> ToolRows] :
        /\ tools = [h \in Handles |-> BuildTool(rowOf[h], uservars)]
        /\ asBuilt = tools
        /\ log = <<>>

IdleTools ==
    /\ tools = <<>>
    /\ asBuilt = <<>>
    /\ log = <<>>

\* one invocation tool._run(variable_mappings=mappings) meeting `net`
Run(h, mappings, net) ==
    /\ Len(log) < MaxCalls
    /\ LET sent == Request(tools[h], mappings)
       IN /\ log' = Append(log, [handle |-> h, variable_mappings |-> mappings,
                                 net |-> net, request |-> sent,
                                 result |-> RunResult(net)])
          /\ tools' = [tools EXCEPT ![h] = ToolAfterRun(tools[h], sent)]
    /\ UNCHANGED <<asBuilt, nonToolVars>>

---------------------------------------------------------------------------
(* agent_builder.py: build_variable_context, the classification loop *)

MaxVars == 2

\* the decoded payloads of the `variables` column
Payloads ==
    {Dict([BLR |-> "Bangalore", DEL |-> "Delhi"]),
     Dict([tool_dependency |-> "get_token", instruction |-> "call it"]),
     Dict([extraction_hint |-> "a number"]),
     Dict([tool_dependency |-> "get_token", extraction_hint |-> "a number"]),
     Dict([tool_dependency |-> ""]),
     Dict(<<>>)}

\* the `variables` column as the store returns it
RawPayloads ==
    {RawNone}
    \cup {RawDict(d) : d \in Payloads}
    \cup {RawText("text_json", d) : d \in Payloads \cup {Other(<<1, 2>>)}}

\* the variable_type entry of a row: no such key, null, a tag, or other text
VariableTypes ==
    {"<absent>", "<null>", "contextual", "direct_input", "tool_dependency", "legacy"}

OtherVariables == [variable_type : VariableTypes, variables : RawPayloads]

\* var.get('variable_type', 'contextual'), line 139
VarType(var) ==
    IF var.variable_type = "<absent>" THEN "contextual" ELSE var.variable_type

\* dict.get(key) taken for its truth value, lines 149 and 151
GetTruthy(data, key) == key \in DOMAIN data.val /\ data.val[key] # ""

\* the bucket one pass of the loop appends var to, lines 138-154; "raise"
\* when .get is called on decoded JSON that is no dict
Bucket(var) ==
    LET var_type == VarType(var)
    IN IF var_type \in {"contextual", "direct_input", "tool_dependency"} THEN var_type
       ELSE LET variables_data == SafeJsonLoad(var.variables)
            IN IF variables_data.kind # "dict" THEN "raise"
               ELSE IF GetTruthy(variables_data, "tool_dependency") THEN "tool_dependency"
               ELSE IF GetTruthy(variables_data, "extraction_hint") THEN "direct_input"
               ELSE "contextual"

\* the positions of the variables the loop puts in bucket b, in list order
BucketOf(vars_, b) == {i \in DOMAIN vars_ : Bucket(vars_[i]) = b}

NotClassified == [state |-> "not classified", contextual |-> {}, direct_input |-> {},
                  tool_dependency |-> {}]

\* the three lists after the loop of lines 138-154, or the exception
ClassifyAll(vars_) ==
    IF \E i \in DOMAIN vars_ : Bucket(vars_[i]) = "raise"
    THEN [state |-> "raised", contextual |-> {}, direct_input |-> {},
          tool_dependency |-> {}]
    ELSE [state |-> "classified",
          contextual |-> BucketOf(vars_, "contextual"),
          direct_input |-> BucketOf(vars_, "direct_input"),
          tool_dependency |-> BucketOf(vars_, "tool_dependency")]

InitClassifier ==
    /\ other_variables \in UNION {[1 .. n -> OtherVariables] : n \in 1 .. MaxVars}
    /\ buckets = NotClassified

\* build_variable_context(other_variables) up to line 154
Classify ==
    /\ buckets = NotClassified
    /\ buckets' = ClassifyAll(other_variables)
    /\ UNCHANGED <<other_variables, nonClassVars>>

---------------------------------------------------------------------------
(* agent_builder.py: DynamicAPICallTool._enhance_description *)

\* the stored tool_description of a tool row
StoredDescription == <<"D">>

\* the head line of the block _enhance_description appends, line 46
VarInfoHead == "DYNAMIC VARIABLES:"

\* lines 48-49 for one variable: "raise" when .get is called on decoded JSON
\* that is no dict, "line" when the variable gets a line, else "skip"
VarLine(var) ==
    LET var_data == SafeJsonLoad(var.variables)
    IN IF var_data.kind # "dict" THEN "raise"
       ELSE IF var_data.val # <<>> /\ ~GetTruthy(var_data, "tool_dependency") THEN "line"
       ELSE "skip"

\* lines 51-52: the line of variable i, "- name: Choose from [keys]"
OptionLine(vars_, i) ==
    [name |-> i, options |-> DOMAIN SafeJsonLoad(vars_[i].variables).val]

\* the lines of the variables i..Len(vars_), in list order
RECURSIVE VarInfo(_, _)

VarInfo(vars_, i) ==
    IF i > Len(vars_) THEN <<>>
    ELSE (IF VarLine(vars_[i]) = "line" THEN <<OptionLine(vars_, i)>> ELSE <<>>)
         \o VarInfo(vars_, i + 1)

\* self.description after _enhance_description, lines 43-55: the stored text,
\* and the appended block when at least one variable got a line
EnhanceDescription(stored, vars_) ==
    IF \E i \in DOMAIN vars_ : VarLine(vars_[i]) = "raise"
    THEN [state |-> "raised", text |-> stored, head |-> <<>>, lines |-> <<>>]
    ELSE LET var_info == VarInfo(vars_, 1)
         IN [state |-> "enhanced", text |-> stored,
             head |-> IF var_info # <<>> THEN <<VarInfoHead>> ELSE <<>>,
             lines |-> var_info]

NotEnhanced == [state |-> "stored", text |-> StoredDescription, head |-> <<>>,
                lines |-> <<>>]

\* a tool row with its description and the agent's other-variables
InitDescription ==
    /\ other_variables \in UNION {[1 .. n -> OtherVariables] : n \in 0 .. MaxVars}
    /\ buckets = NotClassified
    /\ description = NotEnhanced

IdleDescription == description = NotEnhanced

\* DynamicAPICallTool(description=..., other_variables=...), lines 36-41
Construct ==
    /\ description = NotEnhanced
    /\ description' = EnhanceDescription(description.text, other_variables)
    /\ UNCHANGED <<classVars, nonDescVars>>

---------------------------------------------------------------------------
(* data_service.py: the fetches of build_agent_from_metadata *)

\* the reads of the store one build makes
Fetches ==
    {"agent", "user_variables", "other_variables", "configs",
     "task_instructions", "tool_ids", "tools"}

\* the dict both fallbacks of fetch_agent_configs return, lines 93-118, 123-148
DefaultConfig ==
    [llm |-> "groq/llama-3.3-70b-versatile", function_calling_llm |-> "<null>",
     max_iter |-> "20", max_execution_time |-> "<null>", max_retry_limit |-> "2"]

\* the s_agent_configs row: none, one that sets every field, one that sets
\* no model
ConfigRows ==
    {[present |-> FALSE, row |-> DefaultConfig],
     [present |-> TRUE,
      row |-> [llm |-> "openai/gpt-4o", function_calling_llm |-> "openai/gpt-4o",
               max_iter |-> "7", max_execution_time |-> "60",
               max_retry_limit |-> "3"]],
     [present |-> TRUE,
      row |-> [llm |-> "<null>", function_calling_llm |-> "<null>",
               max_iter |-> "5", max_execution_time |-> "120",
               max_retry_limit |-> "1"]]}

\* api_metadata ids in the order the store returns their rows
ToolIds == <<"t1", "t2", "t3">>

\* the api_metadata row of an id
ToolData(id) ==
    CHOOSE row \in ToolRows :
        row.http_method = (IF id = "t1" THEN "get" ELSE IF id = "t2" THEN "POST" ELSE "post")

\* the `tools` column of the agent's s_agent_basic_metadata row
AvailableTools == {"t1", "t2"}

\* the task-level tool selection: none, inside, or partly outside the
\* agent's available tools
ToolSelections ==
    {[present |-> FALSE, ids |-> {}], [present |-> TRUE, ids |-> {"t1"}],
     [present |-> TRUE, ids |-> {"t2", "t3"}]}

\* the s_othervariables rows of the agent
StoredOtherVariables ==
    {<<>>,
     <<[variable_type |-> "contextual",
        variables |-> RawText("text_json", Dict([BLR |-> "Bangalore", DEL |-> "Delhi"]))]>>,
     <<[variable_type |-> "direct_input",
        variables |-> RawText("text_json", Dict([extraction_hint |-> "a number"]))],
       [variable_type |-> "tool_dependency",
        variables |-> RawDict(Dict([tool_dependency |-> "get_token", instruction |-> "call it"]))]>>,
     <<[variable_type |-> "contextual",
        variables |-> RawText("text_json", Other(<<1, 2>>))]>>}

\* what the store holds for one build, and the fetches that fail
Stores ==
    [failed : SUBSET Fetches,
     config : ConfigRows,
     user_variables : {<<>>, [x \in {<<"a">>} |-> <<"U">>]},
     other_variables : StoredOtherVariables,
     instructions : {<<>>, <<"T">>},
     selection : ToolSelections]

Ok(st, fetch) == fetch \notin st.failed

\* the dict fetch_agent_metadata returns, lines 27-39
AgentData(agent_id) ==
    [id |-> agent_id, role |-> <<"R">>, goal |-> <<"G">>, backstory |-> <<"B">>,
     tools |-> AvailableTools]

\* fetch_user_variables keeping what it collected before the failure
FetchUserVariablesPartial(st) == st.user_variables

\* fetch_user_variables, lines 57-73
FetchUserVariables(st) ==
    IF Ok(st, "user_variables") THEN st.user_variables ELSE <<>>

\* fetch_other_variables, lines 76-83
FetchOtherVariables(st) ==
    IF Ok(st, "other_variables") THEN st.other_variables ELSE <<>>

\* fetch_agent_configs, lines 86-148
FetchAgentConfigs(st) ==
    IF Ok(st, "configs") /\ st.config.present THEN st.config.row ELSE DefaultConfig

\* fetch_tools_metadata, lines 44-54: .in_("id", tool_ids)
FetchToolsMetadata(st, tool_ids) ==
    IF tool_ids = {} THEN <<>>
    ELSE IF Ok(st, "tools") THEN SelectSeq(ToolIds, LAMBDA id : id \in tool_ids)
    ELSE <<>>

\* fetch_task_instructions: the instructions of the task, "" when the read
\* fails
FetchTaskInstructions(st) ==
    IF Ok(st, "task_instructions") THEN st.instructions ELSE <<>>

\* resolve_final_tool_ids: a task-level selection restricts to the agent's
\* available tools, otherwise, and when the selection cannot be read, the
\* agent's available tools are used
ResolveFinalToolIds(st, agent_available_tools) ==
    IF Ok(st, "tool_ids") /\ st.selection.present
    THEN st.selection.ids \cap agent_available_tools
    ELSE agent_available_tools

---------------------------------------------------------------------------
(* agent_builder.py: build_agent_from_metadata *)

\* positional parameters of `def build_agent_from_metadata(task_id, agent_id)`
BuildParams == 2

\* build_tools_from_metadata, lines 213-234: one fresh tool per row, with the
\* description its constructor leaves
BuildToolsFromMetadata(tool_data_list, uservars, others) ==
    [i \in DOMAIN tool_data_list |->
        [name |-> tool_data_list[i],
         description |-> EnhanceDescription(StoredDescription, others),
         handle |-> BuildTool(ToolData(tool_data_list[i]), uservars)]]

\* build_variable_context, lines 122-210: "" for no variables; otherwise the
\* head, one section per non-empty bucket and the footer.  The sections call
\* .get on the decoded payload of every variable (lines 163, 177, 190).
BuildVariableContext(others) ==
    IF others = <<>> THEN [raised |-> FALSE, text |-> <<>>]
    ELSE LET lists == ClassifyAll(others)
         IN IF \/ lists.state = "raised"
               \/ \E i \in DOMAIN others : SafeJsonLoad(others[i].variables).kind # "dict"
            THEN [raised |-> TRUE, text |-> <<>>]
            ELSE [raised |-> FALSE,
                  text |-> <<"DYNAMIC VARIABLES CONTEXT:">>
                           \o (IF lists.contextual # {} THEN <<"TYPE 2">> ELSE <<>>)
                           \o (IF lists.direct_input # {} THEN <<"TYPE 3">> ELSE <<>>)
                           \o (IF lists.tool_dependency # {} THEN <<"TYPE 4">> ELSE <<>>)
                           \o <<"EXECUTION STRATEGY:">>]

\* the model name given to LLM(...), lines 263-268
LlmModel(agent_config) ==
    IF agent_config.llm \notin {"<null>", ""} THEN agent_config.llm
    ELSE "groq/llama-3.3-70b-versatile"

NoAgent ==
    [role |-> <<>>, goal |-> <<>>, backstory |-> <<>>, tools |-> <<>>, llm |-> "",
     function_calling_llm |-> "", max_iter |-> "", max_execution_time |-> "",
     max_retry_limit |-> "", cache |-> FALSE, memory |-> ""]

BuildRaised(fault, status, detail) ==
    [raised |-> TRUE, fault |-> fault, status |-> status, detail |-> detail,
     agent |-> NoAgent]

\* build_agent_from_metadata called with the positional arguments `args` on
\* the store `st`: Python binds the arguments before the body runs and raises
\* TypeError when a required parameter is missing; otherwise the body is
\* lines 241-308, ending with the LLM(...) and Agent(...) constructors of
\* the runtime, which accept their arguments or not (ctorOk).
BuildAgentFromMetadata(args, st, ctorOk) ==
    IF Len(args) # BuildParams
    THEN BuildRaised("none", 0,
             <<"TypeError: build_agent_from_metadata() missing 1 required positional argument">>)
    ELSE LET agent_id == args[2]
             meta == FetchAgentMetadata(agent_id, Ok(st, "agent"))
             agent_data == AgentData(agent_id)
             uservars == FetchUserVariables(st)
             others == FetchOtherVariables(st)
             agent_config == FetchAgentConfigs(st)
             task_instructions == FetchTaskInstructions(st)
             final_tool_ids == ResolveFinalToolIds(st, agent_data.tools)
             tool_data_list == FetchToolsMetadata(st, final_tool_ids)
             built_tools == BuildToolsFromMetadata(tool_data_list, uservars, others)
             variable_context == BuildVariableContext(others)
             task_context == IF task_instructions # <<>>
                             THEN <<"TASK INSTRUCTIONS:">> \o task_instructions
                             ELSE <<>>
         IN IF meta.raised
            THEN BuildRaised(meta.fault, meta.status, meta.detail)
            ELSE IF \/ \E i \in DOMAIN built_tools : built_tools[i].description.state = "raised"
                    \/ variable_context.raised
                 THEN BuildRaised("data", 0, <<"AttributeError: object has no attribute 'get'">>)
                 ELSE IF ~ctorOk
                      THEN BuildRaised("build", 0, <<"agent construction failed">>)
                      ELSE [raised |-> FALSE, fault |-> "none", status |-> 0,
                            detail |-> <<>>,
                            agent |->
                              [role |-> agent_data.role,
                               goal |-> agent_data.goal,
                               backstory |-> agent_data.backstory
                                             \o variable_context.text \o task_context,
                               tools |-> built_tools,
                               llm |-> LlmModel(agent_config),
                               function_calling_llm |-> agent_config.function_calling_llm,
                               max_iter |-> agent_config.max_iter,
                               max_execution_time |-> agent_config.max_execution_time,
                               max_retry_limit |-> agent_config.max_retry_limit,
                               cache |-> FALSE,
                               memory |-> "<null>"]]

NotBuilt == [state |-> "not built", call |-> <<>>, ctorOk |-> FALSE,
             result |-> BuildRaised("none", 0, <<>>)]

InitBuild ==
    /\ supabase \in Stores
    /\ agent = NotBuilt

\* a store with no variable, configuration, instruction or selection rows, on
\* which the read of the agent record works or fails
PlainStore(storeOk) ==
    [failed |-> IF storeOk THEN {} ELSE {"agent"},
     config |-> [present |-> FALSE, row |-> DefaultConfig],
     user_variables |-> <<>>,
     other_variables |-> <<>>,
     instructions |-> <<>>,
     selection |-> [present |-> FALSE, ids |-> {}]]

IdleBuild ==
    /\ supabase = PlainStore(TRUE)
    /\ agent = NotBuilt

\* one call build_agent_from_metadata(task_id, agent_id)
Build ==
    /\ agent = NotBuilt
    /\ \E task_id \in Tasks, agent_id \in Agents, ctorOk \in BOOLEAN :
          agent' = [state |-> "built", call |-> <<task_id, agent_id>>, ctorOk |-> ctorOk,
                    result |-> BuildAgentFromMetadata(<<task_id, agent_id>>, supabase, ctorOk)]
    /\ UNCHANGED <<supabase, nonBuildVars>>

---------------------------------------------------------------------------
(* orchestrator.py: execute_agent_task, main.py: execute_agent *)

\* lines 27-32: the bare prompt when the history is empty, else the history
\* with the new prompt appended
PrepareMessages(chat_history, agent_prompt) ==
    IF chat_history = <<>>
    THEN [kind |-> "str", text |-> agent_prompt, list |-> <<>>]
    ELSE [kind |-> "list", text |-> <<>>,
          list |-> Append(chat_history, Msg("user", agent_prompt))]

\* the message without the text of the exception
ErrorMsgGeneric(e) == <<"Agent execution error: ">>

\* line 48: error_msg = f"Agent execution error: {str(e)}"
ErrorMsg(e) == <<"Agent execution error: ">> \o e

\* line 55: f"Error: {error_msg}"
ErrorMarker(e) == <<"Error: ">> \o ErrorMsg(e)

\* lines 41-45
SuccessResult(r) ==
    [status |-> 200, success |-> TRUE, response |-> response[r],
     chat_id |-> chat_id[r], detail |-> <<>>]

\* main.py execute_agent, lines 42-45: an HTTPException passes unchanged, any
\* other exception becomes a 500 "Internal server error"
ExecuteAgent(isHTTPException, status, detail) ==
    [status |-> IF isHTTPException THEN status ELSE 500,
     success |-> FALSE, response |-> <<>>, chat_id |-> 0,
     detail |-> IF isHTTPException THEN detail
                ELSE <<"Internal server error: ">> \o detail]

\* line 59: raise HTTPException(status_code=500, detail=error_msg)
FailureResult(r) == ExecuteAgent(TRUE, 500, ErrorMsg(cause[r]))

\* the exception leaves the try block for the handler at line 47
Raise(r, e, fault) ==
    /\ pc' = [pc EXCEPT ![r] = "HANDLER"]
    /\ cause' = [cause EXCEPT ![r] = e]
    /\ faults' = [faults EXCEPT ![r] = @ \cup (IF fault = "none" THEN {} ELSE {fault})]

\* line 18, in a request that has just arrived; requests are numbered in
\* the order of their arrival
RecordPrompt(r) ==
    /\ pc[r] = "STARTED"
    /\ \A q \in Req : q < r => pc[q] # "STARTED"
    /\ \E t \in NameableTasks(rows), a \in Agents, p \in Prompts, ok \in BOOLEAN :
          /\ req' = [req EXCEPT ![r] = [task_id |-> t, agent_id |-> a,
                                        agent_prompt |-> p]]
          /\ IF ok
             THEN /\ rows' = InsertAgentPrompt(rows, t, a, p)
                  /\ chat_id' = [chat_id EXCEPT ![r] = Len(rows) + 1]
                  /\ pc' = [pc EXCEPT ![r] = "PROMPT_RECORDED"]
                  /\ UNCHANGED <<cause, faults>>
             ELSE /\ Raise(r, <<"500: Error inserting agent prompt">>, "insert")
                  /\ UNCHANGED <<rows, chat_id>>
    /\ UNCHANGED <<messages, response, outcome, attempts>>
    /\ UNCHANGED nonOrchVars

\* the effect of a build outcome on the request (lines 21, 47)
AfterBuild(r, built) ==
    /\ IF built.raised
       THEN Raise(r, built.detail, built.fault)
       ELSE /\ pc' = [pc EXCEPT ![r] = "RUNNING"]
            /\ UNCHANGED <<cause, faults>>
    /\ UNCHANGED <<rows, req, chat_id, messages, response, outcome, attempts>>
    /\ UNCHANGED nonOrchVars

\* line 21 as written: build_agent_from_metadata(agent_id)
BuildAgent(r) ==
    /\ pc[r] = "PROMPT_RECORDED"
    /\ \E storeOk \in BOOLEAN, ctorOk \in BOOLEAN :
          AfterBuild(r, BuildAgentFromMetadata(<<req[r].agent_id>>, PlainStore(storeOk),
                                               ctorOk))

\* line 21 with both parameters of agent_builder.py:237 supplied
BuildAgentBound(r) ==
    /\ pc[r] = "PROMPT_RECORDED"
    /\ \E storeOk \in BOOLEAN, ctorOk \in BOOLEAN :
          AfterBuild(r, BuildAgentFromMetadata(<<req[r].task_id, req[r].agent_id>>,
                                               PlainStore(storeOk), ctorOk))

\* lines 24-32
LoadHistory(r) ==
    /\ pc[r] = "RUNNING"
    /\ \E ok \in BOOLEAN :
          /\ messages' = [messages EXCEPT ![r] =
                PrepareMessages(FetchAgentChatHistory(rows, req[r].task_id, ok),
                                req[r].agent_prompt)]
          /\ faults' = [faults EXCEPT ![r] = @ \cup (IF ok THEN {} ELSE {"history"})]
    /\ pc' = [pc EXCEPT ![r] = "PREPARED"]
    /\ UNCHANGED <<rows, req, chat_id, response, cause, outcome, attempts>>
    /\ UNCHANGED nonOrchVars

\* lines 35-36
Kickoff(r) ==
    /\ pc[r] = "PREPARED"
    /\ \E ok \in BOOLEAN :
          IF ok
          THEN /\ response' = [response EXCEPT ![r] = Answer(r)]
               /\ pc' = [pc EXCEPT ![r] = "ANSWERED"]
               /\ UNCHANGED <<cause, faults>>
          ELSE /\ Raise(r, <<"runtime failure">>, "runtime")
               /\ UNCHANGED response
    /\ UNCHANGED <<rows, req, chat_id, messages, outcome, attempts>>
    /\ UNCHANGED nonOrchVars

\* lines 39-45
RecordResponse(r) ==
    /\ pc[r] = "ANSWERED"
    /\ \E ok \in BOOLEAN :
          /\ attempts' = [attempts EXCEPT ![r] =
                Append(@, [text |-> response[r], ok |-> ok])]
          /\ IF ok
             THEN /\ rows' = UpdateAgentResponse(rows, chat_id[r], response[r])
                  /\ pc' = [pc EXCEPT ![r] = "COMPLETED"]
                  /\ outcome' = [outcome EXCEPT ![r] = SuccessResult(r)]
                  /\ UNCHANGED <<cause, faults>>
             ELSE /\ Raise(r, <<"500: Error updating agent response">>, "update")
                  /\ UNCHANGED <<rows, outcome>>
    /\ UNCHANGED <<req, chat_id, messages, response>>
    /\ UNCHANGED nonOrchVars

\* the test of line 53 inverted
MarksErrorInverted(r) == chat_id[r] = 0

\* line 53: the marker is written only when chat_id is truthy
MarksError(r) == chat_id[r] # 0

\* lines 47-59
HandleError(r) ==
    /\ pc[r] = "HANDLER"
    /\ IF MarksError(r)
       THEN \E ok \in BOOLEAN :
               /\ attempts' = [attempts EXCEPT ![r] =
                     Append(@, [text |-> ErrorMarker(cause[r]), ok |-> ok])]
               /\ rows' = IF ok
                          THEN UpdateAgentResponse(rows, chat_id[r],
                                                   ErrorMarker(cause[r]))
                          ELSE rows
               /\ faults' = [faults EXCEPT ![r] =
                                @ \cup (IF ok THEN {} ELSE {"marker"})]
       ELSE UNCHANGED <<attempts, rows, faults>>
    /\ pc' = [pc EXCEPT ![r] = "FAILED"]
    /\ outcome' = [outcome EXCEPT ![r] = FailureResult(r)]
    /\ UNCHANGED <<req, chat_id, messages, response, cause>>
    /\ UNCHANGED nonOrchVars

---------------------------------------------------------------------------
(* Specifications of the orchestration *)

InitRequests ==
    /\ rows = <<>>
    /\ pc = [r \in Req |-> "STARTED"]
    /\ req = [r \in Req |-> NoReq]
    /\ chat_id = [r \in Req |-> 0]
    /\ messages = [r \in Req |-> NoMessages]
    /\ response = [r \in Req |-> <<>>]
    /\ cause = [r \in Req |-> <<>>]
    /\ outcome = [r \in Req |-> NoOutcome]
    /\ attempts = [r \in Req |-> <<>>]
    /\ faults = [r \in Req |-> {}]

\* the classifier at rest
IdleClassifier ==
    /\ other_variables = <<>>
    /\ buckets = NotClassified

\* the resolver at rest
IdleResolver ==
    /\ template = Dict(<<>>)
    /\ variable_mappings = <<>>
    /\ user_variables = <<>>
    /\ resolved = NotResolved

\* the program as src/ defines it
Init == InitRequests /\ IdleResolver /\ IdleTools /\ IdleClassifier /\ IdleBuild
    /\ IdleDescription

Next ==
    \E r \in Req :
        \/ RecordPrompt(r)
        \/ BuildAgent(r)
        \/ HandleError(r)

Spec == Init /\ [][Next]_vars

\* the orchestrator driving a build whose call supplies both parameters
InitBound == InitRequests /\ IdleResolver /\ IdleTools /\ IdleClassifier /\ IdleBuild
    /\ IdleDescription

NextBound ==
    \E r \in Req :
        \/ RecordPrompt(r)
        \/ BuildAgentBound(r)
        \/ LoadHistory(r)
        \/ Kickoff(r)
        \/ RecordResponse(r)
        \/ HandleError(r)

SpecBound == InitBound /\ [][NextBound]_vars

\* the template resolver applied to every bounded template and binding pair
InitResolve == InitRequests /\ InitResolver /\ IdleTools /\ IdleClassifier /\ IdleBuild
    /\ IdleDescription

NextResolve == Resolve

SpecResolve == InitResolve /\ [][NextResolve]_vars

\* the tool handles of one build, invoked by the runtime
InitTool == InitRequests /\ IdleResolver /\ InitTools /\ IdleClassifier /\ IdleBuild
    /\ IdleDescription

NextTool ==
    \E h \in Handles, mappings \in CallMappings, net \in Nets :
        Run(h, mappings, net)

SpecTool == InitTool /\ [][NextTool]_vars

\* build_variable_context on every bounded list of other-variables
InitClassify == InitRequests /\ IdleResolver /\ IdleTools /\ InitClassifier /\ IdleBuild
    /\ IdleDescription

NextClassify == Classify

SpecClassify == InitClassify /\ [][NextClassify]_vars

\* build_agent_from_metadata on every bounded store and set of failing fetches
InitAssemble ==
    InitRequests /\ IdleResolver /\ IdleTools /\ IdleClassifier /\ InitBuild
    /\ IdleDescription

NextAssemble == Build

SpecAssemble == InitAssemble /\ [][NextAssemble]_vars

\* the constructor of one tool on every bounded list of other-variables
InitConstruct ==
    InitRequests /\ IdleResolver /\ IdleTools /\ InitDescription /\ IdleBuild

NextConstruct == Construct

SpecConstruct == InitConstruct /\ [][NextConstruct]_vars

---------------------------------------------------------------------------
(* Properties of the template resolver *)

\* text[i..j] is one `{name}` occurrence
IsToken(text, i, j) ==
    /\ text[i] = "{"
    /\ text[j] = "}"
    /\ j > i + 1
    /\ \A k \in (i + 1) .. (j - 1) : text[k] \in WordChars

HasToken(text) == \E i, j \in DOMAIN text : IsToken(text, i, j)

\* the binding C6 gives a name: the call-time one, else the user variable,
\* else the literal occurrence
ClaimedBinding(name, literal) ==
    IF name \in DOMAIN variable_mappings THEN variable_mappings[name]
    ELSE IF name \in DOMAIN user_variables THEN user_variables[name]
    ELSE literal

RECURSIVE ClaimedText(_, _)
\* the text from position i on with every occurrence given its binding
ClaimedText(text, i) ==
    IF i > Len(text) THEN <<>>
    ELSE IF \E j \in DOMAIN text : IsToken(text, i, j)
         THEN LET j == CHOOSE j \in DOMAIN text : IsToken(text, i, j)
              IN ClaimedBinding(SubSeq(text, i + 1, j - 1), SubSeq(text, i, j))
                 \o ClaimedText(text, j + 1)
         ELSE <<text[i]>> \o ClaimedText(text, i + 1)

RECURSIVE ClaimedTree(_)
\* the tree with every string leaf of its mappings resolved as C6 says
ClaimedTree(node) ==
    IF node.kind = "dict"
    THEN Dict([key \in DOMAIN node.val |-> ClaimedTree(node.val[key])])
    ELSE IF node.kind = "str" THEN Str(ClaimedText(node.val, 1))
    ELSE node

RECURSIVE StringLeaves(_)
\* the string leaves of the mappings of a tree
StringLeaves(node) ==
    IF node.kind = "dict"
    THEN UNION {StringLeaves(node.val[key]) : key \in DOMAIN node.val}
    ELSE IF node.kind = "str" THEN {node.val} ELSE {}

\* C6: the resolved tree is the template with each `{name}` occurrence of
\* each string leaf replaced by the call-time binding of name if there is one,
\* else by its user variable if there is one, else left as it is; a template
\* without occurrences, and any template resolved with no binding at all,
\* comes back unchanged.
C6_ResolvesByPriority ==
    resolved # NotResolved =>
        /\ resolved = ClaimedTree(template)
        /\ (\A text \in StringLeaves(template) : ~HasToken(text)) => resolved = template
        /\ variable_mappings = <<>> /\ user_variables = <<>> => resolved = template

\* C6 witness: the template "/{a}" has been resolved to "/V" with `a` bound
\* to "V" by the call-time mappings and to "U" by the user variables.
C6_Witness ==
    /\ template = Dict([k |-> Str(<<"/", "{", "a", "}">>)])
    /\ <<"a">> \in DOMAIN variable_mappings
    /\ <<"a">> \in DOMAIN user_variables
    /\ variable_mappings[<<"a">>] = <<"V">>
    /\ user_variables[<<"a">>] = <<"U">>
    /\ resolved = Dict([k |-> Str(<<"/", "V">>)])

---------------------------------------------------------------------------
(* Properties of the tool invocation *)

HasFailurePrefix(result) == Len(result) >= 1 /\ result[1] = "API call failed: "

RECURSIVE SameShape(_, _)
\* `after` has the keys of `before`, a string where it has a string, a mapping
\* of the same shape where it has a mapping, and its other values themselves
SameShape(before, after) ==
    IF before.kind = "dict"
    THEN /\ after.kind = "dict"
         /\ DOMAIN after.val = DOMAIN before.val
         /\ \A key \in DOMAIN before.val : SameShape(before.val[key], after.val[key])
    ELSE IF before.kind = "str" THEN after.kind = "str"
    ELSE after = before

\* the body sent, as json or as form data
SentBody(request) == IF request.json = Other("None") THEN request.data ELSE request.json

\* C9: after any invocations the handles hold the templates and the user
\* variables they were built with, and the request of each invocation is the
\* as-built templates of its handle resolved with the mappings of that
\* invocation alone, key for key, other values passed through.
C9_NoSideEffect ==
    /\ tools = asBuilt
    /\ \A i \in DOMAIN log :
          LET call == log[i]
              tool == asBuilt[call.handle]
              own(tree) == ResolvePlaceholders(tree, call.variable_mappings,
                                               tool.user_variables)
          IN /\ call.request.headers = own(tool.headers)
             /\ call.request.params = own(tool.query_params)
             /\ SentBody(call.request) = own(tool.body)
             /\ SameShape(tool.headers, call.request.headers)
             /\ SameShape(tool.query_params, call.request.params)
             /\ SameShape(tool.body, SentBody(call.request))

\* C9 witness: one handle whose header template names `a` was invoked with
\* `a` bound and then with no mapping, and the second request carries the
\* template's placeholder again.
C9_Witness ==
    /\ Len(log) = 2
    /\ log[1].handle = log[2].handle
    /\ log[1].variable_mappings # <<>>
    /\ log[2].variable_mappings = <<>>
    /\ asBuilt[log[1].handle].user_variables = <<>>
    /\ asBuilt[log[1].handle].headers = PathTemplate
    /\ log[1].request.headers # PathTemplate
    /\ log[2].request.headers = PathTemplate

---------------------------------------------------------------------------
(* Properties of the classifier *)

\* the bucket C10 gives a variable: its tag, else by the keys of its payload
ClaimedBucket(var) ==
    IF var.variable_type \in {"contextual", "direct_input", "tool_dependency"}
    THEN var.variable_type
    ELSE LET payload == var.variables.val
         IN IF payload.kind # "dict" THEN "contextual"
            ELSE IF "tool_dependency" \in DOMAIN payload.val THEN "tool_dependency"
            ELSE IF "extraction_hint" \in DOMAIN payload.val THEN "direct_input"
            ELSE "contextual"

\* C10 as claimed: every other-variable that carries one of the three tags or
\* no variable_type is in exactly one bucket, the one of its tag, or without
\* a tag the one its payload implies.
C10_ClassifiedByTypeOrPayload ==
    buckets # NotClassified
    /\ (\A i \in DOMAIN other_variables : other_variables[i].variable_type # "legacy") =>
        /\ buckets.state = "classified"
        /\ \A i \in DOMAIN other_variables :
              \A b \in {"contextual", "direct_input", "tool_dependency"} :
                  i \in buckets[b] <=> b = ClaimedBucket(other_variables[i])

---------------------------------------------------------------------------
(* Properties of the orchestration *)

Done(r) == pc[r] \in {"COMPLETED", "FAILED"}

\* the update_agent_response calls of r that reached the store
Writes(r) == {i \in DOMAIN attempts[r] : attempts[r][i].ok}

\* the text the failure met by r is reported with
OriginalFailure(r) ==
    IF "metadata" \in faults[r]
    THEN <<"500: Error fetching agent metadata: ", "store failure">>
    ELSE IF "no_agent" \in faults[r]
    THEN <<"500: Error fetching agent metadata: ", "404: Agent not found">>
    ELSE IF "build" \in faults[r] THEN <<"agent construction failed">>
    ELSE <<"runtime failure">>

\* C1 as claimed: once the prompt is recorded the turn row exists before the
\* build begins, and when the request has returned or raised, the row's
\* response has been written exactly once.
C1_ResponseWrittenExactlyOnce ==
    \A r \in Req :
        /\ pc[r] \notin {"STARTED", "HANDLER", "FAILED"} => chat_id[r] \in DOMAIN rows
        /\ Done(r) /\ chat_id[r] # 0 => Cardinality(Writes(r)) = 1

\* C1 as amended: once the prompt is recorded the turn row exists, holding the
\* request's prompt and no response, before the build begins; when the request
\* has returned or raised, one or two attempts to write the response were made,
\* at most one of them reached the store, and the row holds the text of that
\* one, or no response when every attempt failed.
C1_ResponseWrittenAtMostOnce ==
    \A r \in Req :
        /\ pc[r] \notin {"STARTED", "HANDLER", "FAILED"} => chat_id[r] \in DOMAIN rows
        /\ chat_id[r] # 0 =>
              /\ chat_id[r] \in DOMAIN rows
              /\ rows[chat_id[r]].agent_prompt = req[r].agent_prompt
              /\ rows[chat_id[r]].task_id = req[r].task_id
              /\ Cardinality(Writes(r)) <= 1
              /\ pc[r] \in {"PROMPT_RECORDED", "RUNNING", "PREPARED", "ANSWERED"} =>
                    attempts[r] = <<>> /\ rows[chat_id[r]].response = Null
              /\ Done(r) =>
                    /\ Len(attempts[r]) \in {1, 2}
                    /\ \A i \in Writes(r) :
                          rows[chat_id[r]].response = attempts[r][i].text
                    /\ Writes(r) = {} => rows[chat_id[r]].response = Null

\* C1 witness: a request whose write of the answer failed and whose write of
\* the error marker then succeeded has ended.
C1_Witness ==
    \E r \in Req :
        /\ pc[r] = "FAILED"
        /\ Len(attempts[r]) = 2
        /\ Writes(r) = {2}

\* C2 as claimed: a request all of whose collaborators succeeded, for an agent
\* that has a record, ends with {success: true, response, chat_id} and its
\* turn holds the prompt and the runtime's non-empty answer.
C2_AllSucceedCompletes ==
    \A r \in Req :
        Done(r) /\ faults[r] = {} /\ req[r].agent_id \in KnownAgents =>
            /\ pc[r] = "COMPLETED"
            /\ outcome[r].success
            /\ outcome[r].chat_id = chat_id[r]
            /\ rows[chat_id[r]].agent_prompt = req[r].agent_prompt
            /\ rows[chat_id[r]].response = outcome[r].response
            /\ Truthy(outcome[r].response)

\* C3 as claimed: a request whose build, history loading or runtime invocation
\* failed after the prompt was recorded ends FAILED with a 500, never a
\* success, after one attempt to write the error marker.
C3_StepFailureEndsFailed ==
    \A r \in Req :
        Done(r) /\ chat_id[r] # 0
                /\ faults[r] \cap {"metadata", "no_agent", "build", "history", "runtime"} # {} =>
            /\ pc[r] = "FAILED"
            /\ outcome[r].status = 500
            /\ ~outcome[r].success

\* C3 as amended: a request whose build or runtime invocation failed after the
\* prompt was recorded ends FAILED: exactly one attempt is made to write the
\* error marker, whether or not that write fails the caller receives a 500
\* whose detail is "Agent execution error: " followed by the text of the
\* original failure, and no success result; a failure of history loading is
\* not such a failure: it is swallowed and leaves the request running with an
\* empty history.
C3_BuildOrRuntimeFailureEndsFailed ==
    \A r \in Req :
        /\ Done(r) /\ chat_id[r] # 0
                   /\ faults[r] \cap {"metadata", "no_agent", "build", "runtime"} # {} =>
              /\ pc[r] = "FAILED"
              /\ outcome[r] = [status |-> 500, success |-> FALSE, response |-> <<>>,
                               chat_id |-> 0,
                               detail |-> <<"Agent execution error: ">> \o OriginalFailure(r)]
              /\ Len(attempts[r]) = 1
              /\ attempts[r][1].text =
                    <<"Error: ", "Agent execution error: ">> \o OriginalFailure(r)
              /\ attempts[r][1].ok = ("marker" \notin faults[r])
        /\ Done(r) /\ faults[r] = {"history"} =>
              pc[r] = "COMPLETED" /\ messages[r].kind = "str"

\* C3 witness: a request whose runtime invocation failed and whose error
\* marker could not be written has ended.
C3_Witness ==
    \E r \in Req :
        /\ pc[r] = "FAILED"
        /\ {"runtime", "marker"} \subseteq faults[r]

\* C4 as claimed: a request naming an agent without a record ends with a 404
\* and without any update of a turn's response.
C4_UnknownAgentNotFound ==
    \A r \in Req :
        Done(r) /\ chat_id[r] # 0 /\ req[r].agent_id \notin KnownAgents =>
            /\ outcome[r].status = 404
            /\ attempts[r] = <<>>

RECURSIVE PriorTurns(_, _, _, _)
\* the turns of the task created before row `id`, in creation order, each as
\* its user prompt followed by its assistant response when it has one
PriorTurns(store, task_id, id, i) ==
    IF i >= id \/ i > Len(store) THEN <<>>
    ELSE (IF store[i].task_id = task_id
          THEN <<Msg("user", store[i].agent_prompt)>>
               \o (IF store[i].response # Null
                   THEN <<Msg("assistant", store[i].response)>> ELSE <<>>)
          ELSE <<>>)
         \o PriorTurns(store, task_id, id, i + 1)

\* the runtime input C5 describes for request r reading `store`
ClaimedInput(store, r) ==
    LET prior == PriorTurns(store, req[r].task_id, chat_id[r], 1)
    IN IF prior = <<>>
       THEN [kind |-> "str", text |-> req[r].agent_prompt, list |-> <<>>]
       ELSE [kind |-> "list", text |-> <<>>,
             list |-> Append(prior, Msg("user", req[r].agent_prompt))]

\* C5 as claimed: whenever a request prepares the runtime input with its
\* history read succeeding, the input is the bare prompt if the task had no
\* earlier turn, else the earlier turns in creation order followed by the new
\* prompt once.
C5_RuntimeInput ==
    [][\A r \in Req :
          pc[r] = "RUNNING" /\ pc'[r] = "PREPARED" /\ faults'[r] = {} =>
              messages'[r] = ClaimedInput(rows, r)]_vars

RECURSIVE SerialRun(_, _, _)
\* what the requests order[i], order[i+1], ... hand to the runtime and leave
\* in their turns when run one after the other, fault free, on `store`
SerialRun(order, store, i) ==
    IF i > Len(order) THEN <<>>
    ELSE LET r == order[i]
             s1 == InsertAgentPrompt(store, req[r].task_id, req[r].agent_id,
                                     req[r].agent_prompt)
             m == PrepareMessages(FetchAgentChatHistory(s1, req[r].task_id, TRUE),
                                  req[r].agent_prompt)
             s2 == UpdateAgentResponse(s1, Len(s1), Answer(r))
         IN <<[messages |-> m, row |-> s2[Len(s1)]]>> \o SerialRun(order, s2, i + 1)

\* C8 as claimed: two fault-free requests with non-empty prompts that both
\* completed handed the
\* runtime the messages, and left the turns, of one of the two sequential
\* executions.
C8_Serializable ==
    \A a, b \in Req :
        a # b /\ pc[a] = "COMPLETED" /\ pc[b] = "COMPLETED"
              /\ faults[a] = {} /\ faults[b] = {}
              /\ Truthy(req[a].agent_prompt) /\ Truthy(req[b].agent_prompt)
              /\ (\A q \in Req \ {a, b} : pc[q] = "STARTED") =>
            \E order \in {<<a, b>>, <<b, a>>} :
                LET run == SerialRun(order, <<>>, 1)
                IN \A i \in 1 .. 2 :
                      /\ messages[order[i]] = run[i].messages
                      /\ rows[chat_id[order[i]]] = run[i].row

---------------------------------------------------------------------------
(* Properties of the agent build *)

\* the fetch of the agent identity record of the call has succeeded
IdentityFetched == Ok(supabase, "agent") /\ agent.call[2] \in KnownAgents

\* the other-variables the build works with all carry an object payload
ObjectPayloads ==
    \/ ~Ok(supabase, "other_variables")
    \/ \A i \in DOMAIN supabase.other_variables :
           supabase.other_variables[i].variables.val.kind = "dict"

\* text contains the token
Mentions(text, token) == \E i \in DOMAIN text : text[i] = token

---------------------------------------------------------------------------
(* Properties of the tool description *)

\* the payload of the variable, as stored, is an object with at least one key
HasOptions(var) ==
    /\ var.variables.val.kind = "dict"
    /\ DOMAIN var.variables.val.val # {}

\* C12 as claimed: after the constructor of a tool has run, the description
\* still starts with the stored description, every line appended to it is
\* the line of a CONTEXTUAL variable (none of a DIRECT_INPUT or
\* TOOL_DEPENDENCY variable), and nothing is appended when no CONTEXTUAL
\* variable has options.
C12_OnlyContextualOptions ==
    description.state = "enhanced" =>
        /\ description.text = StoredDescription
        /\ \A k \in DOMAIN description.lines :
               ClaimedBucket(other_variables[description.lines[k].name]) = "contextual"
        /\ (~\E i \in DOMAIN other_variables :
                /\ ClaimedBucket(other_variables[i]) = "contextual"
                /\ HasOptions(other_variables[i]))
            => (description.lines = <<>> /\ description.head = <<>>)

---------------------------------------------------------------------------
(* Properties of the chat-turn rows *)

\* C13: in every step of every interleaving of requests, no row disappears;
\* no row changes its task_id, agent_id or prompt; a response changes only
\* in the row whose id the acting request's own insert_agent_prompt
\* returned; a request's turn id is the id of the row its insert created,
\* with the prompt it received, and never changes afterwards.
C13_WritesOwnTurnOnly ==
    [][/\ Len(rows') >= Len(rows)
       /\ \A i \in DOMAIN rows :
              /\ rows'[i].task_id = rows[i].task_id
              /\ rows'[i].agent_id = rows[i].agent_id
              /\ rows'[i].agent_prompt = rows[i].agent_prompt
              /\ rows'[i].response # rows[i].response =>
                     \E r \in Req :
                         /\ chat_id[r] = i
                         /\ attempts'[r] # attempts[r]
                         /\ \A q \in Req \ {r} : attempts'[q] = attempts[q]
       /\ \A r \in Req :
              /\ chat_id[r] # 0 => chat_id'[r] = chat_id[r]
              /\ (chat_id[r] = 0 /\ chat_id'[r] # 0) =>
                     /\ chat_id'[r] = Len(rows) + 1
                     /\ Len(rows') = Len(rows) + 1
                     /\ rows'[chat_id'[r]].task_id = req'[r].task_id
                     /\ rows'[chat_id'[r]].agent_id = req'[r].agent_id
                     /\ rows'[chat_id'[r]].agent_prompt = req'[r].agent_prompt
      ]_vars

\* C13 happens: two requests of one task have each written the response of
\* their own turn, one an answer and one an error marker, and both turns
\* still carry the prompts they were created with.
C13_Witness ==
    \E r, q \in Req :
        /\ r # q
        /\ pc[r] = "COMPLETED" /\ pc[q] = "FAILED"
        /\ chat_id[r] # 0 /\ chat_id[q] # 0
        /\ req[r].task_id = req[q].task_id
        /\ rows[chat_id[r]].response = response[r]
        /\ rows[chat_id[q]].response = ErrorMarker(cause[q])
        /\ rows[chat_id[r]].agent_prompt = req[r].agent_prompt
        /\ rows[chat_id[q]].agent_prompt = req[q].agent_prompt

=============================================================================
